---- MODULE Spec2Model ----
(***************************************************************************)
(* A model of the build-queue computation of msys2-web (app/api.py):      *)
(* the selection of the recipes to build, the dependency closure, the     *)
(* construction of the build units, sort_entries and the grouping of the  *)
(* output by repo.                                                         *)
(*                                                                         *)
(* Package names, repo names and recipe locations are natural numbers;    *)
(* the order of the numbers stands for the order of the strings.  Python  *)
(* lists and dicts (which keep insertion order) are sequences, Python     *)
(* sets are sets.                                                          *)
(***************************************************************************)
EXTENDS Naturals, Sequences, FiniteSets

VARIABLES
    sources,      \* state.sources: the built sources with their packages
    sourceinfos,  \* state.sourceinfos: the recipe packages, by pkgname
    pc,           \* the position of the computation
    srcinfos,     \* index: the recipe packages selected for building
    entries,      \* the list of units given to sort_entries
    todo,         \* sort_entries: the units not placed yet
    done,         \* sort_entries: the units placed so far
    rounds,       \* sort_entries: iterations of the while loop so far
    all_packages, \* index: the packages of the units already emitted
    out,          \* index: the units emitted so far
    packages,     \* get_transitive_depends: the names it was given
    c_todo,       \* get_transitive_depends: its todo set
    c_done        \* get_transitive_depends: its done set

store == <<sources, sourceinfos>>
sortvars == <<entries, todo, done, rounds>>
closurevars == <<packages, c_todo, c_done>>
vars == <<sources, sourceinfos, pc, srcinfos, entries, todo, done, rounds,
          all_packages, out, packages, c_todo, c_done>>

(***************************************************************************)
(* Bounds                                                                  *)
(***************************************************************************)
MaxUnits == 3

MaxName == 3

MaxSeeds == 2

(***************************************************************************)
(* Python helpers                                                          *)
(***************************************************************************)
Range(s) == {s[i] : i \in 1..Len(s)}

Min(S) == CHOOSE x \in S : \A y \in S : x <= y

\* sorted(S) for a set of names: the ascending list
RECURSIVE SortedSeq(_)
SortedSeq(S) ==
    IF S = {} THEN <<>>
    ELSE LET m == Min(S) IN <<m>> \o SortedSeq(S \ {m})

\* a < b for two lists, as Python compares lists
RECURSIVE ListLess(_, _)
ListLess(a, b) ==
    IF b = <<>> THEN FALSE
    ELSE IF a = <<>> THEN TRUE
    ELSE IF Head(a) # Head(b) THEN Head(a) < Head(b)
    ELSE ListLess(Tail(a), Tail(b))

\* list.remove(e): the list without its first element equal to e
RemoveFirst(s, e) ==
    LET i == Min({k \in 1..Len(s) : s[k] = e})
    IN  SubSeq(s, 1, i - 1) \o SubSeq(s, i + 1, Len(s))

\* a variant that removes only the first unit of to_add
RemoveOnlyFirst(s, es) == RemoveFirst(s, es[1])

\* for e in to_add: todo.remove(e)
RECURSIVE RemoveAll(_, _)
RemoveAll(s, es) ==
    IF es = <<>> THEN s ELSE RemoveAll(RemoveFirst(s, Head(es)), Tail(es))

RECURSIVE Concat(_)
Concat(ss) == IF ss = <<>> THEN <<>> ELSE Head(ss) \o Concat(Tail(ss))

(***************************************************************************)
(* sort_entries                                                            *)
(***************************************************************************)
\* key=lambda e: (len(e["makedepends"]), sorted(e["provides"])), compared
KeyLess(a, b) ==
    \/ Cardinality(a.makedepends) < Cardinality(b.makedepends)
    \/ /\ Cardinality(a.makedepends) = Cardinality(b.makedepends)
       /\ ListLess(SortedSeq(a.provides), SortedSeq(b.provides))

\* e put into the sorted list s behind every element whose key is not larger
InsertByKey(s, e) ==
    LET n == Cardinality({k \in 1..Len(s) : ~KeyLess(e, s[k])})
    IN  SubSeq(s, 1, n) \o <<e>> \o SubSeq(s, n + 1, Len(s))

\* sorted(entries, key=...): stable
RECURSIVE SortedByKey(_)
SortedByKey(es) ==
    IF es = <<>> THEN <<>>
    ELSE InsertByKey(SortedByKey(SubSeq(es, 1, Len(es) - 1)), es[Len(es)])

\* current["makedepends"] & other["provides"]
Needs(current, other) == current.makedepends \cap other.provides # {}

\* a variant that takes any needed unit with at least as many makedepends for a cycle
CycleBreakNoMutual(current, other) ==
    Cardinality(current.makedepends) <= Cardinality(other.makedepends)

\* a variant that breaks a cycle at the unit with more makedepends
CycleBreakMore(current, other) ==
    /\ current.provides \cap other.makedepends # {}
    /\ Cardinality(current.makedepends) >= Cardinality(other.makedepends)

\* the test that takes the "cycle" branch for a needed unit
CycleBreak(current, other) ==
    /\ current.provides \cap other.makedepends # {}
    /\ Cardinality(current.makedepends) <= Cardinality(other.makedepends)

\* the position of the unit at which the inner loop breaks (Len+1: no break)
BreakAt(t, i) ==
    Min({j \in 1..Len(t) : j # i /\ Needs(t[i], t[j]) /\ ~CycleBreak(t[i], t[j])}
        \cup {Len(t) + 1})

\* what the scan of t[i] appends to potential
PotentialOf(t, i) ==
    LET hits == {j \in 1..(BreakAt(t, i) - 1) :
                    j # i /\ Needs(t[i], t[j]) /\ CycleBreak(t[i], t[j])}
    IN  [k \in 1..Cardinality(hits) |-> t[i]]

Potential(t) == Concat([i \in 1..Len(t) |-> PotentialOf(t, i)])

\* the units whose inner loop ran to its end
Ready(t) ==
    Concat([i \in 1..Len(t) |-> IF BreakAt(t, i) = Len(t) + 1 THEN <<t[i]>> ELSE <<>>])

\* a variant whose fallback selects nothing
ToAddNoFallback(t) == Ready(t)

\* to_add of one iteration of the while loop
ToAdd(t) ==
    IF Ready(t) # <<>> THEN Ready(t)
    ELSE IF Potential(t) # <<>> THEN <<Potential(t)[1]>>
    ELSE <<t[1]>>

\* one iteration of the while loop
Round ==
    /\ pc = "sort"
    /\ todo # <<>>
    /\ \E to_add \in {ToAdd(todo)} :
         /\ done' = done \o to_add
         /\ todo' = RemoveAll(todo, to_add)
    /\ rounds' = rounds + 1
    /\ UNCHANGED <<pc, entries, store, srcinfos, all_packages, out, closurevars>>

\* return done
SortReturn ==
    /\ pc = "sort"
    /\ todo = <<>>
    /\ pc' = "sorted"
    /\ UNCHANGED <<sortvars, store, srcinfos, all_packages, out, closurevars>>

(***************************************************************************)
(* The store read by index.  A source is [name, version, packages], its    *)
(* packages listed by ascending key (as sorted(s.packages.items()) visits  *)
(* them); a built package is [name, version, depends, makedepends]; a      *)
(* recipe package is [pkgname, pkgbase, build_version, repo_url,           *)
(* repo_path, repo, depends, makedepends, provides].                       *)
(***************************************************************************)
\* utils.version_is_newer_than: versions are numbers here
version_is_newer_than(a, b) == a > b

\* p for s in state.sources.values() for p in (sorted) s.packages
BuiltPackages == Concat([i \in 1..Len(sources) |-> sources[i].packages])

BuiltNames == {p.name : p \in Range(BuiltPackages)}

\* name in state.sourceinfos
InSourceinfos(name) == \E si \in Range(sourceinfos) : si.pkgname = name

\* state.sourceinfos[name]
Sourceinfo(name) == CHOOSE si \in Range(sourceinfos) : si.pkgname = name

(***************************************************************************)
(* index: the selection of the recipe packages to build                    *)
(***************************************************************************)
\* a variant that also takes the recipes that are not newer
RuleAAny ==
    Concat([k \in 1..Len(BuiltPackages) |->
        IF InSourceinfos(BuiltPackages[k].name)
        THEN <<Sourceinfo(BuiltPackages[k].name)>>
        ELSE <<>>])

\* packages that should be updated
RuleA ==
    Concat([k \in 1..Len(BuiltPackages) |->
        IF /\ InSourceinfos(BuiltPackages[k].name)
           /\ version_is_newer_than(Sourceinfo(BuiltPackages[k].name).build_version,
                                    BuiltPackages[k].version)
        THEN <<Sourceinfo(BuiltPackages[k].name)>>
        ELSE <<>>])

NotBuilt(si) == si.pkgname \notin BuiltNames

\* packages that are new
RuleB == SelectSeq(sourceinfos, NotBuilt)

\* lines 54-73
Select ==
    /\ pc = "idle"
    /\ srcinfos' = RuleA \o RuleB
    /\ pc' = "selected"
    /\ UNCHANGED <<store, sortvars, all_packages, out, closurevars>>

(***************************************************************************)
(* index: the dependency closure                                           *)
(***************************************************************************)
\* db_depends[name], db_makedepends[name]
db_depends(name) == UNION {p.depends : p \in {q \in Range(BuiltPackages) : q.name = name}}

db_makedepends(name) ==
    UNION {p.makedepends : p \in {q \in Range(BuiltPackages) : q.name = name}}

\* a variant that prefers the depends of the DB over those of GIT
DependsOfDbFirst(name) ==
    IF name \in BuiltNames THEN db_depends(name)
    ELSE IF InSourceinfos(name) THEN Sourceinfo(name).depends
    ELSE {}

\* what get_transitive_depends adds to todo for name
DependsOf(name) ==
    IF InSourceinfos(name) THEN Sourceinfo(name).depends
    ELSE IF name \in BuiltNames THEN db_depends(name)
    ELSE {}

\* one iteration of the while loop of get_transitive_depends, todo.pop()
\* having returned name
ClosureStep(t, d, name) ==
    IF name \in d
    THEN [todo |-> t \ {name}, done |-> d]
    ELSE [todo |-> (t \ {name}) \cup DependsOf(name), done |-> d \cup {name}]

RECURSIVE ClosureLoop(_, _)
ClosureLoop(t, d) ==
    IF t = {} THEN d
    ELSE LET st == ClosureStep(t, d, Min(t)) IN ClosureLoop(st.todo, st.done)

get_transitive_depends(names) == ClosureLoop(names, {})

\* what get_transitive_makedepends adds to todo for name
MakedependsSeeds(name) ==
    IF InSourceinfos(name)
    THEN Sourceinfo(name).depends \cup Sourceinfo(name).makedepends
    ELSE IF name \in BuiltNames THEN db_depends(name) \cup db_makedepends(name)
    ELSE {}

get_transitive_makedepends(names) ==
    get_transitive_depends(UNION {MakedependsSeeds(name) : name \in names})

(***************************************************************************)
(* index: the build units                                                  *)
(***************************************************************************)
build_key(si) == <<si.repo_url, si.repo_path>>

\* the keys of to_build, in the order of their insertion
RECURSIVE BuildKeys(_)
BuildKeys(sis) ==
    IF sis = <<>> THEN <<>>
    ELSE LET front == BuildKeys(SubSeq(sis, 1, Len(sis) - 1))
             key == build_key(sis[Len(sis)])
         IN  IF key \in Range(front) THEN front ELSE Append(front, key)

\* to_build.values()
ToBuild(sis) ==
    [k \in 1..Len(BuildKeys(sis)) |->
        LET HasKey(si) == build_key(si) = BuildKeys(sis)[k]
        IN  SelectSeq(sis, HasKey)]

srcinfo_has_src(si) ==
    \E i \in 1..Len(sources) :
        sources[i].name = si.pkgbase /\ si.build_version = sources[i].version

\* the unit of the recipe packages sis of one location
BuildEntry(sis) ==
    LET pkgs == {si.pkgname : si \in Range(sis)}
    IN  [repo_url |-> sis[1].repo_url,
         repo_path |-> sis[1].repo_path,
         version |-> sis[1].build_version,
         name |-> sis[1].pkgbase,
         source |-> \E si \in Range(sis) : ~srcinfo_has_src(si),
         packages |-> pkgs,
         provides |-> UNION {si.provides : si \in Range(sis)} \cup pkgs,
         makedepends |-> get_transitive_makedepends(pkgs)]

\* all_provides before the real names are removed from it
ProvidesIndex(d) == {si.pkgname : si \in {x \in Range(srcinfos) : d \in x.provides}}

\* a variant that leaves the names of the packages in the queue in all_provides
AllProvidesKeysQueueKept ==
    UNION {si.provides : si \in Range(srcinfos)} \ BuiltNames

\* the keys of all_provides after the packages of the repo and of the queue
\* are removed
AllProvidesKeys ==
    (UNION {si.provides : si \in Range(srcinfos)})
        \ (BuiltNames \cup {si.pkgname : si \in Range(srcinfos)})

\* all_provides.get(d, set([d]))
AllProvidesGet(d) == IF d \in AllProvidesKeys THEN ProvidesIndex(d) ELSE {d}

\* repo_mapping[name]
repo_mapping(name) ==
    LET k == CHOOSE k \in 1..Len(srcinfos) :
                 /\ srcinfos[k].pkgname = name
                 /\ \A j \in (k + 1)..Len(srcinfos) : srcinfos[j].pkgname # name
    IN  srcinfos[k].repo

\* lines 75-167, to the first line of sort_entries
BuildEntries ==
    /\ pc = "selected"
    /\ entries' = [k \in 1..Len(ToBuild(srcinfos)) |-> BuildEntry(ToBuild(srcinfos)[k])]
    /\ todo' = SortedByKey(entries')
    /\ done' = <<>>
    /\ rounds' = 0
    /\ pc' = "sort"
    /\ UNCHANGED <<store, srcinfos, all_packages, out, closurevars>>

(***************************************************************************)
(* index: the output                                                       *)
(***************************************************************************)
\* the lists that enumerate the set S, each a possible order of iteration
Orders(S) ==
    {o \in [1..Cardinality(S) -> S] : \A x \in S : \E i \in 1..Cardinality(S) : o[i] = x}

\* the keys of grouped, in the order of their insertion
RECURSIVE GroupKeys(_)
GroupKeys(sequence) ==
    IF sequence = <<>> THEN <<>>
    ELSE LET front == GroupKeys(SubSeq(sequence, 1, Len(sequence) - 1))
             key == repo_mapping(sequence[Len(sequence)])
         IN  IF key \in Range(front) THEN front ELSE Append(front, key)

\* group_by_repo for the set that is iterated in the order of sequence: the
\* dict as the list of its items
group_by_repo(sequence) ==
    [k \in 1..Len(GroupKeys(sequence)) |->
        <<GroupKeys(sequence)[k],
          SortedSeq({name \in Range(sequence) : repo_mapping(name) = GroupKeys(sequence)[k]})>>]

\* makedepends of the loop body: the provided names replaced
ResolvedMakedepends(e) == UNION {AllProvidesGet(d) : d \in e.makedepends}

\* the unit as emitted, its sets iterated in the orders deps and pkgs
Emitted(e, deps, pkgs) ==
    [repo_url |-> e.repo_url,
     repo_path |-> e.repo_path,
     version |-> e.version,
     name |-> e.name,
     source |-> e.source,
     depends |-> group_by_repo(deps),
     packages |-> group_by_repo(pkgs)]

\* one iteration of the loop over the sorted entries
FormatEntry ==
    /\ pc = "sorted"
    /\ Len(out) < Len(done)
    /\ \E e \in {done[Len(out) + 1]} :
         /\ \E deps \in Orders(ResolvedMakedepends(e) \cap all_packages) :
              \E pkgs \in Orders(e.packages) :
                out' = Append(out, Emitted(e, deps, pkgs))
         /\ all_packages' = all_packages \cup e.packages
    /\ UNCHANGED <<pc, store, srcinfos, sortvars, closurevars>>

\* return JSONResponse(entries)
Respond ==
    /\ pc = "sorted"
    /\ Len(out) = Len(done)
    /\ pc' = "done"
    /\ UNCHANGED <<store, srcinfos, sortvars, all_packages, out, closurevars>>

Next == Select \/ BuildEntries \/ Round \/ SortReturn \/ FormatEntry \/ Respond

\* nothing called yet
Idle ==
    /\ pc = "idle"
    /\ srcinfos = <<>>
    /\ entries = <<>>
    /\ todo = <<>>
    /\ done = <<>>
    /\ rounds = 0
    /\ all_packages = {}
    /\ out = <<>>
    /\ packages = {}
    /\ c_todo = {}
    /\ c_done = {}

(***************************************************************************)
(* get_transitive_depends on its own, given the names 1..k for a k up to    *)
(* MaxSeeds, todo.pop() returning any element                              *)
(***************************************************************************)
ClosureCall ==
    /\ pc = "idle"
    /\ \E k \in 0..MaxSeeds : packages' = 1..k
    /\ c_todo' = packages'
    /\ c_done' = {}
    /\ pc' = "closure"
    /\ UNCHANGED <<store, srcinfos, sortvars, all_packages, out>>

ClosurePop ==
    /\ pc = "closure"
    /\ \E name \in c_todo :
         /\ c_todo' = ClosureStep(c_todo, c_done, name).todo
         /\ c_done' = ClosureStep(c_todo, c_done, name).done
    /\ UNCHANGED <<pc, packages, store, srcinfos, sortvars, all_packages, out>>

ClosureReturn ==
    /\ pc = "closure"
    /\ c_todo = {}
    /\ pc' = "closed"
    /\ UNCHANGED <<closurevars, store, srcinfos, sortvars, all_packages, out>>

ClosureNext == ClosureCall \/ ClosurePop \/ ClosureReturn

(***************************************************************************)
(* The stores the model is run on                                          *)
(***************************************************************************)
Names == 1..MaxName

\* a name that is a package of no source and of no recipe
Virtual == 0

Versions == {1, 2}

\* the repo of the package n
RepoOf(n) == 1 + (n % 2)

BinaryPackage(n, v, deps, mdeps) ==
    [name |-> n, version |-> v, depends |-> deps, makedepends |-> mdeps]

\* the source of the packages ps, which has the version of its first package
Source(n, ps) == [name |-> n, version |-> ps[1].version, packages |-> ps]

\* the recipe package n of the recipe at the path base
RecipePackage(n, base, v, deps, mdeps, provs) ==
    [pkgname |-> n, pkgbase |-> base, build_version |-> v,
     repo_url |-> 1, repo_path |-> base, repo |-> RepoOf(n),
     depends |-> deps, makedepends |-> mdeps, provides |-> provs]

\* the lists of store[n], n = 1..MaxName, one behind the other
StoreSeq(st) == Concat([n \in 1..MaxName |-> st[n]])

\* Stores for the selection: every name has no recipe or one of any version,
\* and up to two built packages of any versions, in one source
SelectRecipes == {<<>>} \cup {<<v>> : v \in Versions}

SelectBuilt == {<<>>} \cup {<<v>> : v \in Versions} \cup (Versions \X Versions)

SelectInit ==
    /\ \E rec \in [Names -> SelectRecipes] :
         \E built \in [Names -> SelectBuilt] :
           /\ sourceinfos = StoreSeq([n \in Names |->
                  [k \in 1..Len(rec[n]) |-> RecipePackage(n, n, rec[n][k], {}, {}, {})]])
           /\ sources = StoreSeq([n \in Names |->
                  IF built[n] = <<>> THEN <<>>
                  ELSE <<Source(n, [k \in 1..Len(built[n]) |->
                                       BinaryPackage(n, built[n][k], {}, {})])>>])
    /\ Idle

SelectSpec == SelectInit /\ [][Next]_vars

\* Stores for the closure: every name is unknown, a recipe package, a built
\* package or both; it depends on nothing, on one name or on all names, and
\* makedepends on the names it does not depend on; the built package of a
\* name that is both depends on the names its recipe does not depend on
DependsChoices == {{}} \cup {{d} : d \in Names} \cup {Names}

ClosureKinds == {"unknown", "recipe", "built", "both"}

ClosureInit ==
    /\ \E kind \in [Names -> ClosureKinds] :
         \E deps \in [Names -> DependsChoices] :
           /\ \A n \in Names : kind[n] = "unknown" => deps[n] = {}
           /\ sourceinfos = StoreSeq([n \in Names |->
                  IF kind[n] \in {"recipe", "both"}
                  THEN <<RecipePackage(n, n, 1, deps[n], Names \ deps[n], {})>>
                  ELSE <<>>])
           /\ sources = StoreSeq([n \in Names |->
                  IF kind[n] = "built"
                  THEN <<Source(n, <<BinaryPackage(n, 1, deps[n], Names \ deps[n])>>)>>
                  ELSE IF kind[n] = "both"
                  THEN <<Source(n, <<BinaryPackage(n, 1, Names \ deps[n], deps[n])>>)>>
                  ELSE <<>>])
    /\ Idle

ClosureSpec == ClosureInit /\ [][ClosureNext]_vars

\* Stores for the build queue: every name is no package, a built package
\* that has no recipe, or a new recipe package; a recipe package provides
\* nothing, the virtual name or the name after its own, and makedepends on
\* nothing or one name, or depends on one package name; the recipe package 2
\* may come from the recipe of the package 1
QueueProvides == {"nothing", "virtual", "next"}

ProvidesOf(n, what) ==
    IF what = "nothing" THEN {}
    ELSE IF what = "virtual" THEN {Virtual}
    ELSE {1 + (n % MaxName)}

\* <<depends, makedepends>>
QueueNeeds == {<<{}, {}>>} \cup {<<{}, {d}>> : d \in Names \cup {Virtual}}
                  \cup {<<{d}, {}>> : d \in Names}

QueuePackages ==
    {[kind |-> "none", needs |-> <<{}, {}>>, provs |-> "nothing"],
     [kind |-> "built", needs |-> <<{}, {}>>, provs |-> "nothing"]}
    \cup [kind : {"new"}, needs : QueueNeeds, provs : QueueProvides]

Init ==
    /\ \E pkg \in [Names -> QueuePackages] :
         \E base2 \in {1, 2} :
           /\ sourceinfos = StoreSeq([n \in Names |->
                  IF pkg[n].kind = "new"
                  THEN <<RecipePackage(n, IF n = 2 THEN base2 ELSE n, 2,
                                       pkg[n].needs[1], pkg[n].needs[2],
                                       ProvidesOf(n, pkg[n].provs))>>
                  ELSE <<>>])
           /\ sources = StoreSeq([n \in Names |->
                  IF pkg[n].kind = "built"
                  THEN <<Source(n, <<BinaryPackage(n, 1, {}, {})>>)>>
                  ELSE <<>>])
    /\ Idle

Spec == Init /\ [][Next]_vars

(***************************************************************************)
(* sort_entries on its own: every list of up to MaxUnits units over the    *)
(* names 1..MaxUnits                                                       *)
(***************************************************************************)
SortNames == 1..MaxUnits

\* sort_entries is called: unit i of the list provides its own name or the
\* name 1, and needs any names
SortCall ==
    /\ pc = "idle"
    /\ \E n \in 1..MaxUnits :
         \E md \in [1..n -> SUBSET SortNames] :
           \E own \in [1..n -> BOOLEAN] :
             entries' = [i \in 1..n |->
                 [key |-> i, makedepends |-> md[i],
                  provides |-> IF own[i] THEN {i} ELSE {1}]]
    /\ todo' = SortedByKey(entries')
    /\ done' = <<>>
    /\ rounds' = 0
    /\ pc' = "sort"
    /\ UNCHANGED <<store, srcinfos, all_packages, out, closurevars>>

SortInit ==
    /\ sources = <<>>
    /\ sourceinfos = <<>>
    /\ Idle

SortNext == SortCall \/ Round \/ SortReturn

SortSpec == SortInit /\ [][SortNext]_vars

\* a call is made, and the loop of sort_entries runs on until it returns
LiveSortSpec == SortSpec /\ WF_vars(SortNext)

(***************************************************************************)
(* Properties of sort_entries                                              *)
(***************************************************************************)
Position(s, e) == Min({k \in 1..Len(s) : s[k] = e})

NoDuplicates(s) == Cardinality(Range(s)) = Len(s)

\* C1: at every round the placed units and the remaining units are disjoint,
\* hold no unit twice and together are the units of the input, so the
\* returned list is a permutation of the input.
C1_Permutation ==
    /\ Range(done) \cup Range(todo) = Range(entries)
    /\ Range(done) \cap Range(todo) = {}
    /\ NoDuplicates(done)
    /\ NoDuplicates(todo)
    /\ Len(done) + Len(todo) = Len(entries)
    /\ pc = "sorted" => Len(done) = Len(entries) /\ Range(done) = Range(entries)

C1_Witness ==
    /\ pc = "sorted"
    /\ Len(done) = MaxUnits
    /\ rounds = MaxUnits
    /\ done # SortedByKey(entries)

\* the units that u needs directly or through other units
RECURSIVE NeedsUpTo(_, _, _)
NeedsUpTo(es, u, k) ==
    IF k = 0 THEN {}
    ELSE LET direct == {v \in Range(es) : v # u /\ Needs(u, v)}
         IN  direct \cup UNION {NeedsUpTo(es, v, k - 1) : v \in direct}

Acyclic(es) == \A u \in Range(es) : u \notin NeedsUpTo(es, u, Len(es))

TopologicalOrder(s) ==
    \A i, j \in 1..Len(s) : (i # j /\ Needs(s[i], s[j])) => j < i

\* C2: when the need relation between distinct units is acyclic, every unit of
\* the returned list stands behind every unit it needs.
C2_AcyclicTopological ==
    (pc = "sorted" /\ Acyclic(entries)) => TopologicalOrder(done)

C2_Witness ==
    /\ pc = "sorted"
    /\ Acyclic(entries)
    /\ Len(done) = MaxUnits
    /\ rounds = MaxUnits
    /\ done # SortedByKey(entries)
    /\ \E i, j \in 1..Len(done) :
          /\ Needs(done[j], done[i])
          /\ Cardinality(done[j].makedepends) < Cardinality(done[i].makedepends)

MutualNeed(a, b) == a # b /\ Needs(a, b) /\ Needs(b, a)

\* C3: of two units that need each other, the one with fewer makedepends is
\* placed first: the other one is never placed while it remains.
C3_CycleBreakOrder ==
    \A a, b \in Range(entries) :
        ( /\ MutualNeed(a, b)
          /\ Cardinality(a.makedepends) < Cardinality(b.makedepends)
          /\ b \in Range(done) )
        => (a \in Range(done) /\ Position(done, a) < Position(done, b))

\* a run of MaxUnits units whose first round found no unit ready and picked
\* a cycle-break option, with a mutual pair of different makedepends counts
C3_Witness ==
    /\ pc = "sorted"
    /\ Len(entries) = MaxUnits
    /\ Ready(SortedByKey(entries)) = <<>>
    /\ Potential(SortedByKey(entries)) # <<>>
    /\ \E a, b \in Range(entries) :
          /\ MutualNeed(a, b)
          /\ Cardinality(a.makedepends) < Cardinality(b.makedepends)
          /\ Position(done, a) < Position(done, b)

\* C8: every round of the loop places at least one of the remaining units, no
\* run takes more rounds than there are units, and the remaining list becomes
\* empty and sort_entries returns.
C8_Terminates ==
    /\ [][(pc = "sort" /\ todo # <<>>) =>
            (Len(todo') < Len(todo) /\ Len(done') > Len(done)
             /\ rounds' <= Len(entries))]_vars
    /\ <>(pc = "sorted" /\ todo = <<>>)

\* a run with a cycle of all its units: no round finds a unit ready and none
\* records a cycle-break option
C8_Witness ==
    /\ pc = "sorted"
    /\ rounds = MaxUnits
    /\ Len(entries) = MaxUnits
    /\ Ready(SortedByKey(entries)) = <<>>
    /\ Potential(SortedByKey(entries)) = <<>>

(***************************************************************************)
(* Properties of the selection (SelectSpec)                                *)
(***************************************************************************)
\* C4: a recipe package is selected exactly if no built package has its name
\* or a built package of its name has a version older than its build_version.
C4_SelectionRule ==
    pc # "idle" =>
        /\ Range(srcinfos) \subseteq Range(sourceinfos)
        /\ \A si \in Range(sourceinfos) :
             si \in Range(srcinfos) <=>
                \/ ~\E p \in Range(BuiltPackages) : p.name = si.pkgname
                \/ \E p \in Range(BuiltPackages) :
                      p.name = si.pkgname /\ p.version < si.build_version

\* a run that selected one recipe as an update and one as new, and left out
\* one that is as old as its built package
C4_Witness ==
    /\ pc = "done"
    /\ \E a, b, c \in Range(sourceinfos) :
          /\ a \in Range(RuleA)
          /\ b \in Range(RuleB)
          /\ c \notin Range(srcinfos)
          /\ \E p \in Range(BuiltPackages) :
                p.name = c.pkgname /\ p.version = c.build_version

\* C10: no recipe package occurs twice in the list of the selected ones.
C10_SelectedOnce == NoDuplicates(srcinfos)

(***************************************************************************)
(* Properties of the closure (ClosureSpec)                                 *)
(***************************************************************************)
\* the edges of a name: the depends of its recipe package, else those of its
\* built packages, else none
RuntimeEdges(n) ==
    IF \E si \in Range(sourceinfos) : si.pkgname = n
    THEN UNION {si.depends : si \in {x \in Range(sourceinfos) : x.pkgname = n}}
    ELSE UNION {p.depends : p \in {q \in Range(BuiltPackages) : q.name = n}}

ClosedUnderEdges(S) == \A n \in S : RuntimeEdges(n) \subseteq S

\* the least set of names that holds the seeds and is closed under the edges
LeastClosed(seeds) ==
    {n \in Names : \A S \in SUBSET Names :
                      (seeds \subseteq S /\ ClosedUnderEdges(S)) => n \in S}

\* C9: whatever the order in which the names are popped, get_transitive_depends
\* returns the least set that holds the names it was given and is closed
\* under the depends edges.
C9_LeastClosure == pc = "closed" => c_done = LeastClosed(packages)

\* a run that followed the recipe of a name whose built package depends on
\* other names, and that reached an unknown name it was not given
C9_Witness ==
    /\ pc = "closed"
    /\ c_done # packages
    /\ \E n \in c_done :
          /\ InSourceinfos(n)
          /\ n \in BuiltNames
          /\ ~(db_depends(n) \subseteq c_done)
    /\ \E n \in c_done \ packages : ~InSourceinfos(n) /\ n \notin BuiltNames
    /\ \E n \in c_done :
          /\ InSourceinfos(n)
          /\ ~(Sourceinfo(n).makedepends \subseteq c_done)

(***************************************************************************)
(* Properties of the build queue (Spec)                                    *)
(***************************************************************************)
\* the names in a grouped mapping
GroupedNames(g) == UNION {Range(g[k][2]) : k \in 1..Len(g)}

\* the packages of the units placed before the i-th
PlacedBefore(i) == UNION {done[j].packages : j \in 1..(i - 1)}

\* the names of the real packages: built ones and ones in the queue
RealNames == BuiltNames \cup {si.pkgname : si \in Range(srcinfos)}

\* C5: the output is the same for every order in which the sets are iterated:
\* every run emits what the run that iterates them in ascending order emits.
C5_Deterministic ==
    \A i \in 1..Len(out) :
        out[i] = Emitted(done[i],
                         SortedSeq(ResolvedMakedepends(done[i]) \cap PlacedBefore(i)),
                         SortedSeq(done[i].packages))

\* C6: in sort_entries a unit needs another one only by a name that is not the
\* name of a real package, or that is a package of the other unit.
C6_RealShadowsVirtual ==
    pc = "sort" =>
        \A i, j \in 1..Len(todo) :
            (i # j /\ Needs(todo[i], todo[j])) =>
                \E d \in todo[i].makedepends \cap todo[j].provides :
                    d \in RealNames => d \in todo[j].packages

\* the packages in the queue that provide d, for a d that is no real package
Resolve(d) ==
    LET providers == {si.pkgname : si \in {x \in Range(srcinfos) : d \in x.provides}}
    IN  IF providers # {} /\ d \notin RealNames THEN providers ELSE {d}

\* C7: the depends of every emitted unit are the resolved names of its
\* makedepends that are packages of the units placed before it; none is a
\* package of the unit itself or of a later unit.
C7_ResolvedDepends ==
    \A i \in 1..Len(out) :
        /\ GroupedNames(out[i].depends) =
              UNION {Resolve(d) : d \in done[i].makedepends} \cap PlacedBefore(i)
        /\ GroupedNames(out[i].depends)
              \cap UNION {done[j].packages : j \in i..Len(done)} = {}

\* a run that emitted a unit whose makedepends hold a virtual name with two
\* providers, both in its depends, and hold a package of its own
C7_Witness ==
    /\ pc = "done"
    /\ \E i \in 1..Len(out) :
          /\ Virtual \in done[i].makedepends
          /\ Cardinality(ProvidesIndex(Virtual)) = 2
          /\ ProvidesIndex(Virtual) \subseteq GroupedNames(out[i].depends)
          /\ Virtual \notin GroupedNames(out[i].depends)
====
